---- MODULE Spec2Model ----
(***************************************************************************)
(* Feed ingestion and synchronisation pipeline of InfoMatrix:              *)
(* RSSService (backend/app/services/rss_service.py) driving the store      *)
(* operations of backend/app/services/db_service.py against the schema of  *)
(* the migration 2ecb2ee290d4 and a Redis cache.                           *)
(*                                                                         *)
(* Optional values (Python None) are sequences of length at most one:      *)
(* <<>> is None, <<x>> is the value x.                                     *)
(***************************************************************************)
EXTENDS Integers, Sequences, FiniteSets, TLC

VARIABLES
    feeds,         \* RSSService.feeds: feed id -> feed config
    redis_client,  \* RSSService.redis_client is not None
    blogs,         \* committed rows of table blogs
    posts,         \* committed rows of table posts
    cache,         \* Redis: feed id -> value stored under "posts:<feed id>"
    clock,         \* the time read by utcnow() / now()
    cyclesLeft,    \* fetches the run may still start
    entriesLeft,   \* feed entries the feed servers may still serve
    wk,            \* per request: the position and locals of the coroutine
    callsLeft,     \* requests the run may still start
    last,          \* the last refresh cycle that ran to its end with a session
    cacheSrc,      \* per cache key: the cycle whose setex wrote the value it holds
    featured_posts,   \* committed rows of table featured_posts
    featured_id_seq   \* the last value of the sequence behind featured_posts.id

vars == <<feeds, redis_client, blogs, posts, cache, clock, cyclesLeft, entriesLeft, callsLeft, wk, last, cacheSrc,
         featured_posts, featured_id_seq>>

-----------------------------------------------------------------------------
(* Bounds of the model *)

MaxCalls == 2
MaxCycles == 2
MaxEntries == 2
MaxOver == 1

(* settings.CACHE_TTL and the slice bound of fetch_and_cache_feed *)
CACHE_TTL == 3600
ENTRY_CAP == 50

-----------------------------------------------------------------------------
(* Configuration and inputs *)

FeedOrder == <<"f1", "f2">>
FeedIds == {FeedOrder[k] : k \in 1..Len(FeedOrder)}
UnknownFeed == "zz"
Urls == {"u1", "u2"}

Some(x) == <<x>>
None == <<>>

\* how a call ends: it returns a value or an exception leaves it
Returns(v) == [exc |-> "", value |-> v]
Raises(e) == [exc |-> e, value |-> None]

\* settings.RSS_FEEDS: every feed has an id, a name, a url and a category
FeedConfigs ==
    {[f \in FeedIds |-> [id |-> f, name |-> "n-" \o f, url |-> u[f],
                         category |-> "c-" \o f]] :
        u \in {v \in [FeedIds -> Urls] : v[FeedOrder[1]] = "u1"}}

\* entries a feed server can list: link and title are attributes that may be missing
EntryPool ==
    { [link |-> Some("a"), title |-> Some("t1")],
      [link |-> Some("a"), title |-> Some("t2")],
      [link |-> Some("b"), title |-> Some("t1")],
      [link |-> None,      title |-> Some("t1")],
      [link |-> Some("b"), title |-> None] }

RECURSIVE SeqsUpTo(_, _)
SeqsUpTo(S, n) ==
    IF n = 0 THEN {<<>>}
    ELSE LET shorter == SeqsUpTo(S, n - 1)
         IN  shorter \cup {Append(s, e) : s \in {t \in shorter : Len(t) = n - 1}, e \in S}

\* what one HTTP GET of a feed URL can yield
FetchFailures == {"timeout", "connect_error", "http_error"}
Responses(cycles, n) ==
    {[kind |-> k, entries |-> <<>>] : k \in FetchFailures}
    \cup (IF cycles = 0 THEN {}
          ELSE {[kind |-> "unparseable", entries |-> <<>>]}
               \cup {[kind |-> "ok", entries |-> es] : es \in SeqsUpTo(EntryPool, n)})

Min(a, b) == IF a < b THEN a ELSE b

\* a feed with a long backlog: len entries with links of their own; in the
\* second shape the first entry has no link
LongFeed(len, shape) ==
    [k \in 1..len |->
        [link |-> IF shape = 2 /\ k = 1 THEN None ELSE Some("l" \o ToString(k)),
         title |-> Some("t1")]]

\* the answers of a feed server whose feed is about as long as the cap
LongResponses(cycles, n) ==
    IF cycles = 0 THEN {}
    ELSE {[kind |-> "ok", entries |-> LongFeed(len, shape)] :
            len \in (ENTRY_CAP - 1)..n, shape \in {1, 2}}

-----------------------------------------------------------------------------
(* Identity Deriver *)

\* hashlib.md5(...).hexdigest() read as a UUID: one identifier per input string
md5_uuid(content) == "#" \o content

generate_post_id_per_call(blog_id, link) ==
    md5_uuid(blog_id \o ":" \o link \o "@" \o ToString(clock))

generate_post_id(blog_id, link) == md5_uuid(blog_id \o ":" \o link)

generate_blog_id(feed_id) == md5_uuid(feed_id)

-----------------------------------------------------------------------------
(* Feed Fetcher *)

\* fetch_feed: any exception of the GET or of raise_for_status gives None;
\* feedparser.parse does not raise on a body it cannot parse, it returns a
\* document without entries.
fetch_feed_empty_document(resp) ==
    Returns(Some([entries |-> IF resp.kind = "ok" THEN resp.entries ELSE <<>>]))

fetch_feed_raises(resp) ==
    IF resp.kind \in FetchFailures THEN Raises("RequestError")
    ELSE Returns(Some([entries |-> IF resp.kind = "unparseable" THEN <<>> ELSE resp.entries]))

fetch_feed(resp) ==
    IF resp.kind \in FetchFailures THEN Returns(None)
    ELSE Returns(Some([entries |-> IF resp.kind = "unparseable" THEN <<>> ELSE resp.entries]))

-----------------------------------------------------------------------------
(* Store: tables, constraints and the session's unit of work *)

NoChange == [del |-> {}, add |-> {}]

\* rows a session sees: committed rows with its own flushed changes applied
Apply(table, pending) == (table \ pending.del) \cup pending.add

session_commit_deferred(table, pending) == [table |-> table, pending |-> pending]

\* session.commit(): the pending changes become committed rows
session_commit(table, pending) == [table |-> Apply(table, pending), pending |-> NoChange]

\* session.rollback() discards the pending changes
session_rollback(pending) == NoChange

get_blog_by_id(table, blog_id) == {b \in table : b.id = blog_id}

get_post_by_link_any_blog(table, blog_id, link) == {p \in table : p.link = link}

get_post_by_link(table, blog_id, link) == {p \in table : p.blog_id = blog_id /\ p.link = link}

blog_insert_id_only(table, row) == \A b \in table : b.id /= row.id

synced_blog_create_only(found, blog_id, info) ==
    IF found /= {} THEN CHOOSE b \in found : TRUE
    ELSE [id |-> blog_id, name |-> info.name, rss_url |-> info.url,
          category |-> Some(info.category), site_url |-> None, description |-> None]

\* create_blog_if_not_exists: the row found takes the values passed, or a
\* new row is made of them; category, site_url and description are
\* feed_info.get(...), and the configuration has no site_url or description
synced_blog(found, blog_id, info) ==
    IF found /= {}
    THEN [(CHOOSE b \in found : TRUE) EXCEPT
              !.name = info.name, !.rss_url = info.url,
              !.category = Some(info.category), !.site_url = None, !.description = None]
    ELSE [id |-> blog_id, name |-> info.name, rss_url |-> info.url,
          category |-> Some(info.category), site_url |-> None, description |-> None]

\* blogs: PRIMARY KEY (id), UNIQUE (rss_url)
blog_insert_ok(table, row) ==
    /\ \A b \in table : b.id /= row.id
    /\ \A b \in table : b.rss_url /= row.rss_url

blog_update_ok(table, row) ==
    \A b \in table : b.id /= row.id => b.rss_url /= row.rss_url

post_insert_unchecked(table, blogtable, row) == \E b \in blogtable : b.id = row.blog_id

\* posts: PRIMARY KEY (id), FOREIGN KEY (blog_id), UNIQUE (blog_id, link)
post_insert_ok(table, blogtable, row) ==
    /\ \A p \in table : p.id /= row.id
    /\ \A p \in table : ~(p.blog_id = row.blog_id /\ p.link = row.link)
    /\ \E b \in blogtable : b.id = row.blog_id

\* to_tsvector over title, summary and content
to_tsvector(row) == Some(row.title)

update_post_tsv_if_unset(table, post_id) ==
    {IF p.id = post_id /\ p.tsv = None THEN [p EXCEPT !.tsv = to_tsvector(p)] ELSE p :
        p \in table}

\* update_post_tsv: UPDATE posts SET tsv = ... WHERE id = :post_id
update_post_tsv(table, post_id) ==
    {IF p.id = post_id THEN [p EXCEPT !.tsv = to_tsvector(p)] ELSE p : p \in table}

upsert_changes_replace_blog(existing, table, post_id, blog_id, title, link, now) ==
    [del |-> {p \in table : p.blog_id = blog_id},
     add |-> {[id |-> post_id, blog_id |-> blog_id, title |-> title, link |-> link,
               tsv |-> None, created_at |-> now, updated_at |-> now]}]

upsert_changes_keep_old(existing, table, post_id, blog_id, title, link, now) ==
    IF existing /= {}
    THEN LET old == CHOOSE p \in existing : TRUE
         IN  [del |-> {},
              add |-> {[old EXCEPT !.title = title, !.updated_at = now]}]
    ELSE [del |-> {},
          add |-> {[id |-> post_id, blog_id |-> blog_id, title |-> title, link |-> link,
                    tsv |-> None, created_at |-> now, updated_at |-> now]}]

upsert_changes_stamp_kept(existing, table, post_id, blog_id, title, link, now) ==
    IF existing /= {}
    THEN LET old == CHOOSE p \in existing : TRUE
         IN  [del |-> {p \in table : p.id = old.id},
              add |-> {[old EXCEPT !.title = title]}]
    ELSE [del |-> {},
          add |-> {[id |-> post_id, blog_id |-> blog_id, title |-> title, link |-> link,
                    tsv |-> None, created_at |-> now, updated_at |-> now]}]

\* the changes upsert_post flushes: the found row rewritten, or a new row
upsert_changes(existing, table, post_id, blog_id, title, link, now) ==
    IF existing /= {}
    THEN LET old == CHOOSE p \in existing : TRUE
         IN  [del |-> {p \in table : p.id = old.id},
              add |-> {[old EXCEPT !.title = title, !.updated_at = now]}]
    ELSE [del |-> {},
          add |-> {[id |-> post_id, blog_id |-> blog_id, title |-> title, link |-> link,
                    tsv |-> None, created_at |-> now, updated_at |-> now]}]

-----------------------------------------------------------------------------
(* Cache values *)

json_dumps(posts_list) == <<"json", posts_list>>
json_loads(text) == text[2]

cache_key(feed_id) == "posts:" \o feed_id

redis_get_always_miss(store, key) == None

\* redis GET: the value under the key, None for a key never set or expired
redis_get(store, key) == IF key \in DOMAIN store THEN store[key] ELSE None

redis_setex_nx(store, key, value) ==
    IF store[key] /= None THEN store ELSE [store EXCEPT ![key] = Some(value)]

redis_setex_merge(store, key, value) ==
    [store EXCEPT ![key] =
        IF store[key] /= None THEN Some(<<"json", store[key][1][2] \o value[2]>>) ELSE Some(value)]

\* redis SETEX: the key holds the new value, whatever it held before
redis_setex(store, key, value) == [store EXCEPT ![key] = Some(value)]

-----------------------------------------------------------------------------
(* Per-request state *)

\* the locals of a request; kind is the answer the feed server gave to the
\* cycle's GET, kept until the cycle returns
Idle ==
    [pc |-> "idle", op |-> "", session |-> FALSE, feed_id |-> "", queue |-> <<>>,
     results |-> <<>>, feed_data |-> None, i |-> 1, posts |-> <<>>, out |-> <<>>,
     existing |-> {}, pending |-> NoChange, err |-> "", at |-> "", stage |-> "",
     written |-> {}, expect |-> <<>>, prev |-> None, kind |-> ""]

CappedEntries_one_more(feed_data) ==
    LET es == feed_data[1].entries IN SubSeq(es, 1, Min(Len(es), ENTRY_CAP + 1))

CappedEntries_newest_last(feed_data) ==
    LET es == feed_data[1].entries
        n == Min(Len(es), ENTRY_CAP)
    IN  [k \in 1..n |-> es[n + 1 - k]]

\* feed_data.entries[:50]
CappedEntries(feed_data) ==
    LET es == feed_data[1].entries IN SubSeq(es, 1, Min(Len(es), ENTRY_CAP))

\* the entries of a list that have a link attribute
LinkedCount(es) == Cardinality({k \in 1..Len(es) : es[k].link /= None})

begin_cycle_unchecked(rec, feed_id, session, lastCycle) ==
    [rec EXCEPT !.feed_id = feed_id, !.session = session, !.feed_data = None,
                !.i = 1, !.posts = <<>>, !.existing = {}, !.written = {},
                !.prev = lastCycle, !.stage = "", !.kind = "", !.pc = "fetch"]

\* fetch_and_cache_feed up to its first await: the lookup of the feed id
begin_cycle(rec, feed_id, session, lastCycle) ==
    LET r == [rec EXCEPT !.feed_id = feed_id, !.session = session, !.feed_data = None,
                         !.i = 1, !.posts = <<>>, !.existing = {}, !.written = {},
                         !.prev = lastCycle, !.stage = "", !.kind = ""]
    IN  IF feed_id \notin DOMAIN feeds
        THEN [r EXCEPT !.pc = "ret", !.stage = "unknown"]
        ELSE [r EXCEPT !.pc = "fetch"]

loop_at_break(rec, k) ==
    [rec EXCEPT !.i = k, !.existing = {},
                !.pc = IF k > Min(1, Len(CappedEntries(rec.feed_data))) THEN "cache" ELSE "entry"]

\* the loop header of fetch_and_cache_feed: the next entry, or the cache step
loop_at(rec, k) ==
    [rec EXCEPT !.i = k, !.existing = {},
                !.pc = IF k > Len(CappedEntries(rec.feed_data)) THEN "cache" ELSE "entry"]

skip_entry_break(rec) == loop_at(rec, Len(CappedEntries(rec.feed_data)) + 1)

\* if not hasattr(entry, 'link'): continue
skip_entry(rec) == loop_at(rec, rec.i + 1)

raise_caught_at_write(rec, error) ==
    IF rec.pc = "write"
    THEN loop_at([rec EXCEPT !.pending = session_rollback(rec.pending)], rec.i + 1)
    ELSE [rec EXCEPT !.pc = "raised", !.err = error, !.at = rec.pc,
                     !.pending = session_rollback(rec.pending)]

\* an exception leaves the coroutine; get_db rolls the session back
raise(rec, error) ==
    [rec EXCEPT !.pc = "raised", !.err = error, !.at = rec.pc,
                !.pending = session_rollback(rec.pending)]

-----------------------------------------------------------------------------
(* Initial states *)

InitCommon ==
    /\ feeds \in FeedConfigs
    /\ redis_client \in BOOLEAN
    /\ blogs = {}
    /\ posts = {}
    /\ cache = [k \in {cache_key(f) : f \in FeedIds} |-> None]
    /\ clock = 1
    /\ cyclesLeft = MaxCycles
    /\ entriesLeft = MaxEntries
    /\ last = None
    /\ cacheSrc = [k \in {cache_key(f) : f \in FeedIds} |-> None]
    /\ featured_posts = {}
    /\ featured_id_seq = 0

Init ==
    /\ InitCommon
    /\ wk = [r \in {1} |-> Idle]
    /\ callsLeft = MaxCalls

-----------------------------------------------------------------------------
(* Requests *)

\* requests run one at a time: only then is "the cycle before this one" defined,
\* and only then is the last cycle recorded
Sequential == Cardinality(DOMAIN wk) = 1

\* between two awaits a coroutine runs alone: while a request stands at the
\* return of fetch_and_cache_feed, which is not an await, no other one steps
Scheduled(r) == \A q \in DOMAIN wk \ {r} : wk[q].pc /= "ret"

\* a new request takes the lowest slot that is free
Accept(r) ==
    /\ wk[r].pc = "idle"
    /\ \A q \in DOMAIN wk : q < r => wk[q].pc /= "idle"
    /\ callsLeft > 0
    /\ callsLeft' = callsLeft - 1

\* fetch_and_cache_feed(feed_id, session)
CallFetchOne(r, feed_id) ==
    /\ Scheduled(r)
    /\ Accept(r)
    /\ wk' = [wk EXCEPT ![r] = begin_cycle([Idle EXCEPT !.op = "fetch_one"], feed_id, TRUE, last)]
    /\ UNCHANGED <<featured_posts, featured_id_seq, feeds, redis_client, blogs, posts, cache, clock, cyclesLeft, entriesLeft, last, cacheSrc>>

\* refresh_all_feeds(session): the first configured feed's cycle starts
CallRefreshAll(r) ==
    /\ Scheduled(r)
    /\ Accept(r)
    /\ wk' = [wk EXCEPT ![r] =
                begin_cycle([Idle EXCEPT !.op = "refresh_all", !.queue = Tail(FeedOrder)],
                            Head(FeedOrder), TRUE, last)]
    /\ UNCHANGED <<featured_posts, featured_id_seq, feeds, redis_client, blogs, posts, cache, clock, cyclesLeft, entriesLeft, last, cacheSrc>>

\* get_cached_posts(feed_id): arg is None or Some(feed id)
CallGetCached(r, arg) ==
    /\ Scheduled(r)
    /\ Accept(r)
    /\ LET rec == [Idle EXCEPT !.op = "get_cached"] IN
       wk' = [wk EXCEPT ![r] =
                IF ~redis_client
                THEN IF arg /= None
                     THEN begin_cycle(rec, arg[1], FALSE, last)
                     ELSE [rec EXCEPT !.pc = "done"]
                ELSE IF arg /= None
                     THEN [rec EXCEPT !.pc = "rget", !.feed_id = arg[1]]
                     ELSE [rec EXCEPT !.pc = "rget_all", !.queue = FeedOrder]]
    /\ UNCHANGED <<featured_posts, featured_id_seq, feeds, redis_client, blogs, posts, cache, clock, cyclesLeft, entriesLeft, last, cacheSrc>>

\* get_cached_posts(feed_id): await redis_client.get, then a hit or a cycle
RedisGet(r) ==
    /\ Scheduled(r)
    /\ wk[r].pc = "rget"
    /\ \E ok \in BOOLEAN :
         LET rec == wk[r]
             cached == redis_get(cache, cache_key(rec.feed_id))
         IN  wk' = [wk EXCEPT ![r] =
                      IF ~ok THEN raise(rec, "RedisError")
                      ELSE IF cached /= None
                           THEN [rec EXCEPT !.pc = "done", !.out = json_loads(cached[1])]
                           ELSE begin_cycle(rec, rec.feed_id, FALSE, last)]
    /\ UNCHANGED <<featured_posts, featured_id_seq, feeds, redis_client, blogs, posts, cache, clock, cyclesLeft, entriesLeft, callsLeft, last, cacheSrc>>

\* get_cached_posts(): one iteration of the loop over self.feeds.keys()
RedisGetAll(r) ==
    /\ Scheduled(r)
    /\ wk[r].pc = "rget_all"
    /\ \E ok \in BOOLEAN :
         LET rec == wk[r] IN
         wk' = [wk EXCEPT ![r] =
                  IF rec.queue = <<>> THEN [rec EXCEPT !.pc = "done"]
                  ELSE IF ~ok THEN raise(rec, "RedisError")
                  ELSE LET cached == redis_get(cache, cache_key(Head(rec.queue)))
                       IN  [rec EXCEPT !.queue = Tail(rec.queue),
                                       !.out = IF cached /= None
                                               THEN rec.out \o json_loads(cached[1])
                                               ELSE rec.out]]
    /\ UNCHANGED <<featured_posts, featured_id_seq, feeds, redis_client, blogs, posts, cache, clock, cyclesLeft, entriesLeft, callsLeft, last, cacheSrc>>

-----------------------------------------------------------------------------
(* The refresh cycle: fetch_and_cache_feed *)

\* await self.fetch_feed(url); if not feed_data: return []
\* (the feed server answers with one of resps)
FetchFrom(r, resps) ==
    /\ Scheduled(r)
    /\ wk[r].pc = "fetch"
    /\ \E resp \in resps :
         LET rec == wk[r]
             call == fetch_feed(resp)
             data == call.value
             got == [rec EXCEPT !.feed_data = data, !.kind = resp.kind]
         IN  /\ entriesLeft' = entriesLeft - Len(resp.entries)
             /\ cyclesLeft' = IF resp.kind \in FetchFailures THEN cyclesLeft ELSE cyclesLeft - 1
             /\ wk' = [wk EXCEPT ![r] =
                         IF call.exc /= "" THEN raise([rec EXCEPT !.kind = resp.kind], call.exc)
                         ELSE IF data = None
                         THEN [got EXCEPT !.pc = "ret", !.stage = "nodata"]
                         ELSE IF rec.session
                              THEN [got EXCEPT !.pc = "blog"]
                              ELSE loop_at(got, 1)]
    /\ UNCHANGED <<featured_posts, featured_id_seq, feeds, redis_client, blogs, posts, cache, clock, callsLeft, last, cacheSrc>>

Fetch(r) == FetchFrom(r, Responses(cyclesLeft, entriesLeft))

\* db_service.create_blog_if_not_exists, with its commit
EnsureBlog(r) ==
    /\ Scheduled(r)
    /\ wk[r].pc = "blog"
    /\ \E ok \in BOOLEAN :
         LET rec == wk[r]
             info == feeds[rec.feed_id]
             blog_id == generate_blog_id(rec.feed_id)
             found == get_blog_by_id(blogs, blog_id)
             row == synced_blog(found, blog_id, info)
             allowed == IF found /= {} THEN blog_update_ok(blogs, row)
                        ELSE blog_insert_ok(blogs, row)
         IN  IF ~ok
             THEN /\ wk' = [wk EXCEPT ![r] = raise(rec, "DBError")]
                  /\ UNCHANGED <<blogs, clock>>
             ELSE IF ~allowed
             THEN /\ wk' = [wk EXCEPT ![r] = raise(rec, "IntegrityError")]
                  /\ UNCHANGED <<blogs, clock>>
             ELSE /\ clock' = clock + 1
                  /\ blogs' = (blogs \ {b \in blogs : found /= {} /\ b.id = blog_id}) \cup {row}
                  /\ wk' = [wk EXCEPT ![r] = loop_at(rec, 1)]
    /\ UNCHANGED <<featured_posts, featured_id_seq, feeds, redis_client, posts, cache, cyclesLeft, entriesLeft, callsLeft, last, cacheSrc>>

\* the post dict built from one entry
post_dict(feed_id, info, entry) ==
    [id |-> generate_post_id(feed_id, entry.link[1]),
     blog_id |-> generate_blog_id(feed_id),
     blog_name |-> info.name,
     title |-> entry.title[1],
     link |-> entry.link[1]]

\* one iteration of the loop up to the await inside upsert_post
NextEntry(r) ==
    /\ Scheduled(r)
    /\ wk[r].pc = "entry"
    /\ LET rec == wk[r]
           entry == CappedEntries(rec.feed_data)[rec.i]
           blog_id == generate_blog_id(rec.feed_id)
       IN  wk' = [wk EXCEPT ![r] =
                    IF entry.link = None THEN skip_entry(rec)
                    ELSE IF entry.title = None THEN raise(rec, "AttributeError")
                    ELSE LET added == [rec EXCEPT !.posts =
                                         Append(rec.posts, post_dict(rec.feed_id, feeds[rec.feed_id], entry))]
                         IN  IF rec.session
                             THEN [added EXCEPT !.pc = "write",
                                      !.existing = get_post_by_link(Apply(posts, rec.pending),
                                                                    blog_id, entry.link[1])]
                             ELSE loop_at(added, rec.i + 1)]
    /\ UNCHANGED <<featured_posts, featured_id_seq, feeds, redis_client, blogs, posts, cache, clock, cyclesLeft, entriesLeft, callsLeft, last, cacheSrc>>

\* upsert_post after the lookup: the write, its commit, and update_post_tsv
UpsertWrite(r) ==
    /\ Scheduled(r)
    /\ wk[r].pc = "write"
    /\ \E outcome \in {"ok", "commit_fails"} :
         LET rec == wk[r]
             p == rec.posts[Len(rec.posts)]
             changes == upsert_changes(rec.existing, posts, p.id, p.blog_id, p.title, p.link, clock)
             flushed == [del |-> rec.pending.del \cup changes.del,
                         add |-> (rec.pending.add \ changes.del) \cup changes.add]
             allowed == rec.existing /= {}
                        \/ \A row \in changes.add : post_insert_ok(posts, blogs, row)
             done == session_commit(posts, flushed)
             indexed == session_commit(update_post_tsv(done.table, p.id),
                                       [del |-> done.pending.del,
                                        add |-> update_post_tsv(done.pending.add, p.id)])
         IN  IF outcome = "commit_fails"
             THEN /\ wk' = [wk EXCEPT ![r] = raise(rec, "DBError")]
                  /\ UNCHANGED posts
             ELSE IF ~allowed
             THEN /\ wk' = [wk EXCEPT ![r] = raise(rec, "IntegrityError")]
                  /\ UNCHANGED posts
             ELSE /\ posts' = indexed.table
                  /\ wk' = [wk EXCEPT ![r] =
                              loop_at([rec EXCEPT !.pending = indexed.pending,
                                                  !.written = {w \in rec.written : w.id /= p.id}
                                                    \cup update_post_tsv(changes.add, p.id)],
                                      rec.i + 1)]
    /\ UNCHANGED <<featured_posts, featured_id_seq, feeds, redis_client, blogs, cache, clock, cyclesLeft, entriesLeft, callsLeft, last, cacheSrc>>

\* if self.redis_client: await setex(cache_key, CACHE_TTL, json.dumps(posts))
CacheWrite(r) ==
    /\ Scheduled(r)
    /\ wk[r].pc = "cache"
    /\ \E ok \in BOOLEAN :
         LET rec == wk[r] IN
         IF ~redis_client
         THEN /\ wk' = [wk EXCEPT ![r] = [rec EXCEPT !.pc = "ret", !.stage = "complete"]]
              /\ UNCHANGED <<cache, cacheSrc>>
         ELSE IF ~ok
         THEN /\ wk' = [wk EXCEPT ![r] = raise(rec, "RedisError")]
              /\ UNCHANGED <<cache, cacheSrc>>
         ELSE /\ cache' = redis_setex(cache, cache_key(rec.feed_id), json_dumps(rec.posts))
              /\ cacheSrc' = [cacheSrc EXCEPT ![cache_key(rec.feed_id)] =
                                Some([feed_id |-> rec.feed_id, session |-> rec.session,
                                      entries |-> CappedEntries(rec.feed_data)])]
              /\ wk' = [wk EXCEPT ![r] = [rec EXCEPT !.pc = "ret", !.stage = "complete"]]
    /\ UNCHANGED <<featured_posts, featured_id_seq, feeds, redis_client, blogs, posts, clock, cyclesLeft, entriesLeft, callsLeft, last>>

\* return posts: to the caller of fetch_and_cache_feed
Return(r) ==
    /\ Scheduled(r)
    /\ wk[r].pc = "ret"
    /\ LET rec == wk[r]
           ran == IF rec.session /\ rec.stage = "complete" /\ Sequential
                  THEN Some([feed_id |-> rec.feed_id, entries |-> rec.feed_data[1].entries,
                             rows |-> Cardinality(posts)])
                  ELSE None
           counted == [rec EXCEPT !.results =
                          Append(rec.results, [feed_id |-> rec.feed_id, count |-> Len(rec.posts)]),
                                  !.expect =
                          Append(rec.expect,
                                 [feed_id |-> rec.feed_id, stage |-> rec.stage,
                                  linked |-> IF rec.stage = "complete"
                                             THEN LinkedCount(CappedEntries(rec.feed_data))
                                             ELSE 0])]
       IN  /\ last' = ran
           /\ wk' = [wk EXCEPT ![r] =
                       IF rec.op /= "refresh_all"
                       THEN [rec EXCEPT !.pc = "done", !.out = rec.posts, !.kind = ""]
                       ELSE IF rec.queue = <<>>
                            THEN [counted EXCEPT !.pc = "done", !.kind = ""]
                            ELSE begin_cycle([counted EXCEPT !.queue = Tail(rec.queue)],
                                             Head(rec.queue), TRUE, ran)]
    /\ UNCHANGED <<featured_posts, featured_id_seq, feeds, redis_client, blogs, posts, cache, clock, cyclesLeft, entriesLeft, callsLeft, cacheSrc>>

\* the request ends: get_db commits after a return and rolls back after a raise
Finish(r) ==
    /\ Scheduled(r)
    /\ wk[r].pc \in {"done", "raised"}
    /\ posts' = IF wk[r].pc = "done" THEN session_commit(posts, wk[r].pending).table ELSE posts
    /\ last' = IF wk[r].pc = "raised" THEN None ELSE last
    /\ wk' = [wk EXCEPT ![r] = Idle]
    /\ UNCHANGED <<featured_posts, featured_id_seq, feeds, redis_client, blogs, cache, clock, cyclesLeft, entriesLeft, callsLeft, cacheSrc>>

\* the TTL of a cache entry runs out
Expire(key) ==
    /\ key \in DOMAIN cache
    /\ cache[key] /= None
    /\ \A r \in DOMAIN wk : wk[r].pc /= "ret"
    /\ cache' = [cache EXCEPT ![key] = None]
    /\ cacheSrc' = [cacheSrc EXCEPT ![key] = None]
    /\ UNCHANGED <<featured_posts, featured_id_seq, feeds, redis_client, blogs, posts, clock, cyclesLeft, entriesLeft, callsLeft, wk, last>>

Next ==
    \/ \E r \in DOMAIN wk, f \in FeedIds \cup {UnknownFeed} : CallFetchOne(r, f)
    \/ \E r \in DOMAIN wk : CallRefreshAll(r)
    \/ \E r \in DOMAIN wk, arg \in {None} \cup {Some(f) : f \in FeedIds \cup {UnknownFeed}} :
          CallGetCached(r, arg)
    \/ \E r \in DOMAIN wk : RedisGet(r)
    \/ \E r \in DOMAIN wk : RedisGetAll(r)
    \/ \E r \in DOMAIN wk : Fetch(r)
    \/ \E r \in DOMAIN wk : EnsureBlog(r)
    \/ \E r \in DOMAIN wk : NextEntry(r)
    \/ \E r \in DOMAIN wk : UpsertWrite(r)
    \/ \E r \in DOMAIN wk : CacheWrite(r)
    \/ \E r \in DOMAIN wk : Return(r)
    \/ \E r \in DOMAIN wk : Finish(r)
    \/ \E key \in DOMAIN cache : Expire(key)

Spec == Init /\ [][Next]_vars

\* two requests, in flight at once, on a service with its cache connected
InitConc ==
    /\ InitCommon
    /\ redis_client
    /\ \A f, g \in FeedIds : f /= g => feeds[f].url /= feeds[g].url
    /\ wk = [r \in {1, 2} |-> Idle]
    /\ callsLeft = Cardinality(DOMAIN wk)

\* the requests that refresh feeds, and the steps of their cycles
NextConc ==
    \/ \E r \in DOMAIN wk, f \in FeedIds : CallFetchOne(r, f)
    \/ \E r \in DOMAIN wk : CallRefreshAll(r)
    \/ \E r \in DOMAIN wk : Fetch(r)
    \/ \E r \in DOMAIN wk : EnsureBlog(r)
    \/ \E r \in DOMAIN wk : NextEntry(r)
    \/ \E r \in DOMAIN wk : UpsertWrite(r)
    \/ \E r \in DOMAIN wk : CacheWrite(r)
    \/ \E r \in DOMAIN wk : Return(r)
    \/ \E r \in DOMAIN wk : Finish(r)

SpecConc == InitConc /\ [][NextConc]_vars

\* one cycle for a feed whose backlog is about as long as the cap
InitCap ==
    /\ feeds \in FeedConfigs
    /\ redis_client \in BOOLEAN
    /\ blogs = {}
    /\ posts = {}
    /\ cache = [k \in {cache_key(f) : f \in FeedIds} |-> None]
    /\ clock = 1
    /\ cyclesLeft = 1
    /\ entriesLeft = ENTRY_CAP + MaxOver
    /\ last = None
    /\ cacheSrc = [k \in {cache_key(f) : f \in FeedIds} |-> None]
    /\ featured_posts = {}
    /\ featured_id_seq = 0
    /\ wk = [r \in {1} |-> Idle]
    /\ callsLeft = 1

FetchLong(r) == FetchFrom(r, LongResponses(cyclesLeft, entriesLeft))

NextCap ==
    \/ \E r \in DOMAIN wk : CallFetchOne(r, Head(FeedOrder))
    \/ \E r \in DOMAIN wk : FetchLong(r)
    \/ \E r \in DOMAIN wk : EnsureBlog(r)
    \/ \E r \in DOMAIN wk : NextEntry(r)
    \/ \E r \in DOMAIN wk : UpsertWrite(r)
    \/ \E r \in DOMAIN wk : CacheWrite(r)
    \/ \E r \in DOMAIN wk : Return(r)
    \/ \E r \in DOMAIN wk : Finish(r)

SpecCap == InitCap /\ [][NextCap]_vars

\* feed keys and links as strings, some of them holding the separator ':'
KeyPool == {"a", "a:b", "b"}
LinkPool == {"c", "b:c", "d"}

\* two calls of generate_post_id, on any two (key, link) pairs
InitId ==
    /\ InitCommon
    /\ callsLeft = 0
    /\ wk \in {[r \in {1} |-> [pc |-> "derive", args |-> <<p, q>>, out |-> None]] :
                 p \in KeyPool \X LinkPool, q \in KeyPool \X LinkPool}

DeriveIds(r) ==
    /\ wk[r].pc = "derive"
    /\ wk' = [wk EXCEPT ![r].pc = "derived",
                        ![r].out = Some(<<generate_post_id(wk[r].args[1][1], wk[r].args[1][2]),
                                          generate_post_id(wk[r].args[2][1], wk[r].args[2][2])>>)]
    /\ UNCHANGED <<featured_posts, featured_id_seq, feeds, redis_client, blogs, posts, cache, clock, cyclesLeft, entriesLeft, callsLeft, last, cacheSrc>>

NextId == \E r \in DOMAIN wk : DeriveIds(r)

SpecId == InitId /\ [][NextId]_vars

-----------------------------------------------------------------------------
(* Properties of the refresh cycle *)

\* the list a cache entry decodes to
CachedList(f) == json_loads(cache[cache_key(f)][1])

\* the value set of a list
Range(seq) == {seq[k] : k \in 1..Len(seq)}

\* every entry with a link has a title
AllTitled(es) == \A k \in 1..Len(es) : es[k].link /= None => es[k].title /= None

\* the post records of a whole entry list: one per entry with a link, in order
RECURSIVE NormalizeAll(_, _, _)
NormalizeAll(feed_id, info, es) ==
    IF es = <<>> THEN <<>>
    ELSE IF Head(es).link = None THEN NormalizeAll(feed_id, info, Tail(es))
    ELSE <<post_dict(feed_id, info, Head(es))>> \o NormalizeAll(feed_id, info, Tail(es))

\* request r stands at the return of a cycle that ran through all its steps
CycleEnded(r) == wk[r].pc = "ret" /\ wk[r].stage = "complete"

\* request r stands at the return of a cycle with a session that directly
\* follows an ended cycle with a session for the same feed
Repeated(r) ==
    /\ CycleEnded(r)
    /\ wk[r].session
    /\ wk[r].prev /= None
    /\ wk[r].prev[1].feed_id = wk[r].feed_id

\* C1: when fetch_and_cache_feed runs with a session twice in a row for the
\* same feed and the feed serves the same entries both times, the store holds
\* after the second cycle exactly as many Post rows as after the first.
C1_IdempotentIngestion ==
    \A r \in DOMAIN wk :
        (Repeated(r) /\ wk[r].prev[1].entries = wk[r].feed_data[1].entries)
            => Cardinality(posts) = wk[r].prev[1].rows

C1_Witness ==
    \E r \in DOMAIN wk :
        /\ Repeated(r)
        /\ wk[r].prev[1].entries = wk[r].feed_data[1].entries
        /\ wk[r].prev[1].rows > 0
        /\ wk[r].written /= {}

\* C2: in every reachable state, also when two cycles of the same feed
\* interleave between the lookup and the write of upsert_post, the store holds
\* at most one Post row per (blog, link) pair.
C2_OneRowPerBlogLink ==
    \A p, q \in posts : (p.blog_id = q.blog_id /\ p.link = q.link) => p = q

\* two cycles both found no row for a link; the second to write was refused
C2_Witness ==
    \E r, q \in DOMAIN wk :
        /\ r /= q
        /\ wk[r].pc = "raised" /\ wk[r].at = "write" /\ wk[r].err = "IntegrityError"
        /\ wk[r].existing = {}
        /\ wk[q].feed_id = wk[r].feed_id
        /\ \E w \in wk[q].written : w.link = wk[r].posts[Len(wk[r].posts)].link

\* C3: after any sequence of cycles the store holds at most one Blog row per
\* feed URL, and once a cycle with a session is past its blog step there is
\* exactly one Blog row with the derived id, carrying the configured name and
\* URL: a cycle for a feed whose Blog exists rewrites that row, it adds none.
C3_OneBlogPerFeed ==
    /\ \A b, c \in blogs : (b.rss_url = c.rss_url \/ b.id = c.id) => b = c
    /\ \A r \in DOMAIN wk :
          (wk[r].session /\ wk[r].pc \in {"entry", "write", "cache"})
              => \E b \in blogs :
                    /\ b.id = generate_blog_id(wk[r].feed_id)
                    /\ b.rss_url = feeds[wk[r].feed_id].url
                    /\ b.name = feeds[wk[r].feed_id].name

\* a cycle is past its blog step for a feed whose Blog row the previous cycle left
C3_Witness ==
    \E r \in DOMAIN wk :
        /\ wk[r].session
        /\ wk[r].pc \in {"entry", "cache"}
        /\ wk[r].prev /= None
        /\ wk[r].prev[1].feed_id = wk[r].feed_id
        /\ Cardinality(blogs) = 1

Stored(f) ==
    \A p \in Range(CachedList(f)) :
        \E row \in posts : row.blog_id = generate_blog_id(f) /\ row.link = p.link

\* C5 as stated: over refresh cycles and the cache-miss reads of
\* get_cached_posts, every record of a cache entry has its Post row.
C5_EveryCachedRecordStored ==
    \A f \in FeedIds : cache[cache_key(f)] /= None => Stored(f)

\* C5 as amended: every record of a cache entry written by a cycle that ran
\* with a store session has a Post row with the same link under the Blog
\* derived from the feed.
C5_SessionCycleRecordsStored ==
    \A f \in FeedIds :
        (cache[cache_key(f)] /= None /\ cacheSrc[cache_key(f)][1].session) => Stored(f)

C5_Witness ==
    \E f \in FeedIds :
        /\ cache[cache_key(f)] /= None
        /\ cacheSrc[cache_key(f)][1].session
        /\ CachedList(f) /= <<>>
        /\ Stored(f)

\* C6: in every reachable state, in the middle of a cycle and after a cycle
\* an error ended as well, the cache entry of a feed is absent or is the
\* complete list of post records of some cycle of that feed that ran through
\* all of its entries.
C6_CacheEntryIsCompleteList ==
    \A f \in FeedIds :
        cache[cache_key(f)] /= None
            => LET src == cacheSrc[cache_key(f)][1]
               IN  /\ src.feed_id = f
                   /\ AllTitled(src.entries)
                   /\ CachedList(f) = NormalizeAll(f, feeds[f], src.entries)

\* an entry of an earlier cycle is in the cache while a later cycle of the
\* feed is under way or was ended by an error after it produced a record
C6_Witness ==
    \E r \in DOMAIN wk :
        /\ wk[r].pc \in {"write", "raised"}
        /\ wk[r].posts /= <<>>
        /\ wk[r].feed_id \in FeedIds
        /\ cache[cache_key(wk[r].feed_id)] /= None
        /\ CachedList(wk[r].feed_id) /= <<>>

\* C7: when the cache step of a cycle has run, the feed's cache entry is
\* exactly the list of records this cycle produced, each of them made from an
\* entry this cycle fetched; nothing of an earlier entry remains, also when
\* the new list is empty.
C7_CacheOverwritten ==
    \A r \in DOMAIN wk :
        (CycleEnded(r) /\ redis_client)
            => /\ cache[cache_key(wk[r].feed_id)] = Some(json_dumps(wk[r].posts))
               /\ \A p \in Range(CachedList(wk[r].feed_id)) :
                     \E e \in Range(CappedEntries(wk[r].feed_data)) :
                        e.link = Some(p.link) /\ e.title = Some(p.title)

\* a cycle that produced no record ended after a cycle of the same feed that
\* produced some
C7_Witness ==
    \E r \in DOMAIN wk :
        /\ Repeated(r) /\ redis_client
        /\ LinkedCount(wk[r].prev[1].entries) > 0
        /\ wk[r].posts = <<>>
        /\ CachedList(wk[r].feed_id) = <<>>

\* C8 as stated: a failing store write of one entry does not make the cycle
\* raise to its caller (the entry is abandoned and the loop goes on).
C8_WriteFailureDoesNotRaise ==
    \A r \in DOMAIN wk : ~(wk[r].pc = "raised" /\ wk[r].at = "write")

C10_FeedFailureIsolated ==
    \A r \in DOMAIN wk :
        wk[r].op = "refresh_all"
            => /\ wk[r].pc = "raised" => wk[r].at /= "fetch"
               /\ wk[r].pc = "done"
                    => /\ Len(wk[r].results) = Len(FeedOrder)
                       /\ \A k \in 1..Len(FeedOrder) :
                             /\ wk[r].results[k].feed_id = FeedOrder[k]
                             /\ wk[r].expect[k].stage \in {"nodata", "complete"}
                             /\ wk[r].expect[k].stage = "nodata" => wk[r].results[k].count = 0
                             /\ wk[r].expect[k].stage = "complete"
                                   => wk[r].results[k].count = wk[r].expect[k].linked

\* the first feed's fetch failed and a later feed was reported with its posts
C10_Witness ==
    \E r \in DOMAIN wk :
        /\ wk[r].op = "refresh_all" /\ wk[r].pc = "done"
        /\ wk[r].expect[1].stage = "nodata"
        /\ \E k \in 2..Len(wk[r].results) : wk[r].results[k].count > 0

-----------------------------------------------------------------------------
(* Properties of the failure paths *)

\* the positions of a request at which it has fetched nothing and at which no
\* step of it writes a Blog row, a Post row or a cache entry
Untouched(r) ==
    /\ wk[r].feed_data = None
    /\ wk[r].posts = <<>>
    /\ wk[r].written = {}
    /\ wk[r].pending = NoChange

\* C11: a cycle asked for a feed identifier that is not configured returns
\* the empty list without raising: the request never stands at the fetch, at
\* the blog step, at a store write or at the cache write, the only steps that
\* fetch or that change a Blog row, a Post row or a cache entry.
C11_UnknownFeedIsEmpty ==
    \A r \in DOMAIN wk :
        wk[r].feed_id = UnknownFeed
            => /\ Untouched(r)
               /\ \/ wk[r].pc = "ret" /\ wk[r].stage = "unknown"
                  \/ wk[r].pc = "done" /\ wk[r].stage = "unknown" /\ wk[r].out = <<>>
                  \/ wk[r].op = "get_cached" /\ wk[r].pc = "rget"
                  \/ wk[r].op = "get_cached" /\ wk[r].pc = "raised" /\ wk[r].at = "rget"

\* the cycle for an unknown feed has returned the empty list while the store
\* and the cache hold rows and an entry of earlier cycles
C11_Witness ==
    \E r \in DOMAIN wk :
        /\ wk[r].feed_id = UnknownFeed
        /\ wk[r].op = "fetch_one"
        /\ wk[r].pc = "done" /\ wk[r].out = <<>>
        /\ posts /= {} /\ blogs /= {}
        /\ \E f \in FeedIds : cache[cache_key(f)] /= None

\* C12: when the fetch of a configured feed fails (transport error, timeout,
\* non-2xx status) the cycle goes from the fetch straight to its return: it
\* does not raise, its result is empty, and it never stands at the blog step,
\* at a store write or at the cache write, so it writes no Blog row, no Post
\* row and not the feed's cache entry.
C12_FetchFailureStopsCycle ==
    \A r \in DOMAIN wk :
        wk[r].kind \in FetchFailures
            => /\ wk[r].pc = "ret"
               /\ wk[r].stage = "nodata"
               /\ Untouched(r)

\* a cycle with a session returns after a failed fetch while the feed's
\* cache entry of an earlier cycle is still there
C12_Witness ==
    \E r \in DOMAIN wk :
        /\ wk[r].kind \in FetchFailures
        /\ wk[r].session
        /\ wk[r].pc = "ret"
        /\ cache[cache_key(wk[r].feed_id)] /= None
        /\ CachedList(wk[r].feed_id) /= <<>>
        /\ \E p \in posts : p.blog_id = generate_blog_id(wk[r].feed_id)

\* C13 as stated: when the GET returns a 2xx response whose body is no
\* RSS/Atom document, fetch_feed gives the "no data" result and the cycle
\* returns from the fetch with an empty result, having written nothing.
C13_UnparseableBodyIsNoData ==
    \A r \in DOMAIN wk :
        wk[r].kind = "unparseable"
            => /\ wk[r].pc = "ret"
               /\ wk[r].stage = "nodata"
               /\ Untouched(r)

\* C14 as stated: no failure of the cache store (a get or a setex that
\* raises) leaves fetch_and_cache_feed, refresh_all_feeds or get_cached_posts.
C14_CacheFailureAbsorbed ==
    \A r \in DOMAIN wk : ~(wk[r].pc = "raised" /\ wk[r].err = "RedisError")

-----------------------------------------------------------------------------
(* Properties of the loop over the entries *)

\* the links of the entries a feed lists within the cap, and of those beyond it
LinksWithinCap(es) ==
    {es[k].link[1] : k \in {j \in 1..Len(es) : j <= ENTRY_CAP /\ es[j].link /= None}}
LinksBeyondCap(es) ==
    {es[k].link[1] : k \in {j \in 1..Len(es) : j > ENTRY_CAP /\ es[j].link /= None}}

\* C15: a cycle processes the first 50 entries of the feed and no more: no
\* record of its result, no Post row and no cache record carries the link of
\* an entry beyond the 50th, and when the cycle has ended its result has one
\* record for each of the first 50 entries that has a link, whatever the
\* length of the feed.
C15_EntryCap ==
    \A r \in DOMAIN wk :
        wk[r].feed_data /= None
            => LET es == wk[r].feed_data[1].entries
                   f == wk[r].feed_id
               IN  /\ Len(wk[r].posts) <= ENTRY_CAP
                   /\ \A p \in Range(wk[r].posts) : p.link \notin LinksBeyondCap(es)
                   /\ \A row \in posts : row.link \notin LinksBeyondCap(es)
                   /\ cache[cache_key(f)] /= None
                        => \A p \in Range(CachedList(f)) : p.link \notin LinksBeyondCap(es)
                   /\ CycleEnded(r)
                        => /\ {p.link : p \in Range(wk[r].posts)} = LinksWithinCap(es)
                           /\ Len(wk[r].posts) = Cardinality(LinksWithinCap(es))
                           /\ wk[r].session => {row.link : row \in posts} = LinksWithinCap(es)

\* a cycle over a feed of more than 50 entries has ended with 50 rows stored
C15_Witness ==
    \E r \in DOMAIN wk :
        /\ CycleEnded(r)
        /\ wk[r].session /\ redis_client
        /\ Len(wk[r].feed_data[1].entries) > ENTRY_CAP
        /\ Len(wk[r].posts) = ENTRY_CAP
        /\ Cardinality(posts) = ENTRY_CAP
        /\ Len(CachedList(wk[r].feed_id)) = ENTRY_CAP

HasLink(entry) == entry.link /= None

\* C16: an entry without a link gives no record, no Post row and nothing to
\* the count, and the entries after it are processed as if it were not
\* there: when the cycle has ended its result is, in order, the record of
\* each entry that has a link, the cache entry holds the same list, and with
\* a session the rows the cycle wrote carry exactly the links of those entries.
C16_LinklessEntrySkipped ==
    \A r \in DOMAIN wk :
        CycleEnded(r)
            => LET linked == SelectSeq(CappedEntries(wk[r].feed_data), HasLink)
                   f == wk[r].feed_id
               IN  /\ wk[r].posts = [k \in 1..Len(linked) |-> post_dict(f, feeds[f], linked[k])]
                   /\ redis_client => CachedList(f) = wk[r].posts
                   /\ wk[r].session
                        => {w.link : w \in wk[r].written} = {e.link[1] : e \in Range(linked)}

\* a cycle has ended whose feed lists an entry without a link before an
\* entry with one, and the later entry's row is stored
C16_Witness ==
    \E r \in DOMAIN wk :
        /\ CycleEnded(r)
        /\ wk[r].session /\ redis_client
        /\ LET es == CappedEntries(wk[r].feed_data)
           IN  /\ Len(es) = 2
               /\ es[1].link = None
               /\ es[2].link /= None
               /\ \E row \in posts : row.link = es[2].link[1] /\ row \in wk[r].written
        /\ Len(wk[r].posts) = 1

\* C17 as stated: an entry that has a link and no title does not make the
\* cycle fail (it is given the empty string as title and upserted).
C17_MissingTitleTolerated ==
    \A r \in DOMAIN wk : ~(wk[r].pc = "raised" /\ wk[r].err = "AttributeError")

\* the entries within the cap that have a link and whose Post row this cycle wrote
Upserted(r) ==
    LET es == wk[r].feed_data[1].entries
    IN  {k \in 1..Len(es) :
            /\ k <= ENTRY_CAP
            /\ es[k].link /= None
            /\ \E w \in wk[r].written : w.link = es[k].link[1] /\ w \in posts}

-----------------------------------------------------------------------------
(* Properties of the Identity Deriver *)

C20_DistinctPairsDistinctIds ==
    \A r \in DOMAIN wk :
        (wk[r].pc = "derived" /\ wk[r].args[1] /= wk[r].args[2])
            => wk[r].out[1][1] /= wk[r].out[1][2]

\* ---------------------------------------------------------------------
\* Entry normaliser: thumbnails (rss_service.py, _extract_content and
\* _extract_thumbnail)
\* ---------------------------------------------------------------------

\* longest media_content list and longest run of <img> tags of an entry
MaxItems == 2

\* the extensions of the scraped-image test
IMAGE_EXTENSIONS == {".jpg", ".jpeg", ".png", ".gif", ".webp", ".svg"}

\* A URL is a string, modelled as the sequence of its pieces: a piece is
\* plain text, a dot-extension, or one of the separators "/", "?", "#".
UrlPool ==
    { <<"h", ".png">>,
      <<"h", ".png", "/", "page">>,
      <<"h", ".txt">>,
      <<"h", "?", "w", ".png">>,
      <<"h", ".PNG", "#", "top">> }

\* str.lower() on one piece
str_lower(piece) ==
    CASE piece = ".PNG" -> ".png"
      [] piece = ".JPG" -> ".jpg"
      [] OTHER -> piece

\* s.split(sep)[0]: the part before the first sep, all of s when there is none
str_split_head(s, sep) ==
    LET hits == {k \in 1..Len(s) : s[k] = sep}
    IN  IF hits = {} THEN s
        ELSE SubSeq(s, 1, (CHOOSE k \in hits : \A j \in hits : k <= j) - 1)

\* any(ext in img_url.lower() for ext in [...]): an extension occurs
\* somewhere in the string
has_image_extension(img_url) ==
    \E k \in 1..Len(img_url) : str_lower(img_url[k]) \in IMAGE_EXTENSIONS

\* The content of an entry is an HTML string, modelled as the sequence of
\* its <img> tags; a tag has its src value and the quote written around it.
\* re.search(pattern, content) with the pattern of one quote: the src of the
\* first tag written with that quote.
IMG_PATTERNS == <<"double", "single">>
re_search(quote, content) ==
    LET hits == {k \in 1..Len(content) : content[k].quote = quote}
    IN  IF hits = {} THEN None
        ELSE Some(content[CHOOSE k \in hits : \A j \in hits : k <= j].src)

\* _extract_content: first content item, else the summary, else ""
extract_content(entry) ==
    IF entry.content /= None /\ entry.content[1] /= <<>>
    THEN entry.content[1][1]
    ELSE IF entry.summary /= None THEN entry.summary[1] ELSE <<>>

\* img_url.split('?')[0].split('#')[0]
strip_query_fragment(img_url) == str_split_head(str_split_head(img_url, "?"), "#")

\* the scan of the content: the patterns in order, the first match of a
\* pattern is cleaned and returned when it passes the extension test
scrape_img(content) ==
    LET passes == {p \in 1..Len(IMG_PATTERNS) :
                     /\ re_search(IMG_PATTERNS[p], content) /= None
                     /\ has_image_extension(
                            strip_query_fragment(re_search(IMG_PATTERNS[p], content)[1]))}
    IN  IF content = <<>> \/ passes = {} THEN None
        ELSE Some(strip_query_fragment(
                 re_search(IMG_PATTERNS[CHOOSE p \in passes : \A q \in passes : p <= q],
                           content)[1]))

\* a MIME type is <<major, minor>>; type.startswith('image/')
is_image_type(type) == type[1] = "image"

\* _extract_thumbnail
extract_thumbnail(entry) ==
    IF entry.media_thumbnail /= None /\ entry.media_thumbnail[1] /= <<>>
    THEN entry.media_thumbnail[1][1].url
    ELSE LET media == IF entry.media_content = None THEN <<>> ELSE entry.media_content[1]
             images == {k \in 1..Len(media) : is_image_type(media[k].type)}
         IN  IF images /= {}
             THEN media[CHOOSE k \in images : \A j \in images : k <= j].url
             ELSE scrape_img(extract_content(entry))

\* the entries a feed can carry, as far as thumbnails go
ThumbItems == {[url |-> None], [url |-> Some(<<"t", ".jpg">>)]}
MediaItems ==
    { [type |-> <<"image", "png">>, url |-> Some(<<"m", ".png">>)],
      [type |-> <<"image", "png">>, url |-> None],
      [type |-> <<"video", "mp4">>, url |-> Some(<<"v", ".mp4">>)] }
ImgTags == [quote : {"double", "single"}, src : UrlPool]
ThumbEntries ==
    [ media_thumbnail : {None, Some(<<>>)} \cup {Some(<<t>>) : t \in ThumbItems},
      media_content : {None} \cup {Some(m) : m \in SeqsUpTo(MediaItems, MaxItems)},
      content : {None, Some(<<>>)} \cup {Some(<<c>>) : c \in SeqsUpTo(ImgTags, MaxItems)},
      summary : {None, Some(<<[quote |-> "double", src |-> <<"s", ".gif">>]>>)} ]

\* the store, the cache and the configuration play no part in the pure
\* functions of the normaliser
InitPure ==
    /\ InitCommon
    /\ redis_client
    /\ feeds = CHOOSE c \in FeedConfigs : TRUE
    /\ callsLeft = 0

InitThumb ==
    /\ InitPure
    /\ wk \in {[r \in {1} |-> [pc |-> "entry", entry |-> e, thumbnail |-> None]] :
                 e \in ThumbEntries}

\* thumbnail = self._extract_thumbnail(entry)
ExtractThumb(r) ==
    /\ wk[r].pc = "entry"
    /\ wk' = [wk EXCEPT ![r].pc = "extracted",
                        ![r].thumbnail = extract_thumbnail(wk[r].entry)]
    /\ UNCHANGED <<featured_posts, featured_id_seq, feeds, redis_client, blogs, posts, cache, clock, cyclesLeft,
                   entriesLeft, callsLeft, last, cacheSrc>>

NextThumb == \E r \in DOMAIN wk : ExtractThumb(r)

SpecThumb == InitThumb /\ [][NextThumb]_vars

\* what each source of the fallback order yields for an entry
FromMediaThumbnail(entry) ==
    IF entry.media_thumbnail /= None /\ entry.media_thumbnail[1] /= <<>>
    THEN entry.media_thumbnail[1][1].url ELSE None
FromMediaContent(entry) ==
    LET media == IF entry.media_content = None THEN <<>> ELSE entry.media_content[1]
        images == {k \in 1..Len(media) : is_image_type(media[k].type)}
    IN  IF images = {} THEN None
        ELSE media[CHOOSE k \in images : \A j \in images : k <= j].url
FromContent(entry) == scrape_img(extract_content(entry))

\* C21: the thumbnail is the value of the earliest of (a) media-thumbnail,
\* (b) first image media-content, (c) scraped <img> that yields one, and it
\* is absent only if none of the three yields a value.
C21_ThumbnailFallbackOrder ==
    \A r \in DOMAIN wk :
        wk[r].pc = "extracted" =>
            LET e == wk[r].entry
            IN  wk[r].thumbnail =
                    IF FromMediaThumbnail(e) /= None THEN FromMediaThumbnail(e)
                    ELSE IF FromMediaContent(e) /= None THEN FromMediaContent(e)
                    ELSE FromContent(e)

\* the entry has no media field that stops the fallback before the content
ScrapedOnly(entry) ==
    /\ entry.media_thumbnail = None
    /\ entry.media_content = None

\* str.endswith of one of the image extensions, case-insensitive
EndsInImageExtension(url) ==
    /\ url /= <<>>
    /\ str_lower(url[Len(url)]) \in IMAGE_EXTENSIONS

\* C29: a thumbnail scraped from an <img> tag is accepted only if its path,
\* after stripping query and fragment, ends in one of the image extensions;
\* a URL that holds such an extension elsewhere is rejected.
C29_ScrapedUrlEndsInExtension ==
    \A r \in DOMAIN wk :
        (/\ wk[r].pc = "extracted"
         /\ ScrapedOnly(wk[r].entry)
         /\ wk[r].thumbnail /= None)
            => EndsInImageExtension(wk[r].thumbnail[1])

\* ---------------------------------------------------------------------
\* Entry normaliser: publish dates (rss_service.py, _parse_date)
\* ---------------------------------------------------------------------

\* A date string is the sequence of its pieces: the date-and-time part,
\* then what follows it (a blank, a numeric offset, a zone name, a "Z").
DateBodies ==
    { "Mon, 02 Jan 2006 15:04:05", "Tue, 03 Jan 2006 08:00:00",
      "2006-01-02T15:04:05", "2006-01-03T08:00:00",
      "2006-01-02 15:04:05", "2006-01-03 08:00:00",
      "not-a-date" }
DateTails ==
    { <<>>, <<" ", "+0000">>, <<" ", "+0530">>, <<" ", "GMT">>, <<" ", "Z">>,
      <<"+0000">>, <<"+0530">>, <<"GMT">>, <<"Z">> }
DateStrings == {<<b>> \o t : b \in DateBodies, t \in DateTails}

\* the formats of _parse_date, in the order of the list; a format is the
\* sequence of its pieces, like the strings it is matched against
DATE_FORMATS ==
    << <<"%a, %d %b %Y %H:%M:%S", " ", "%z">>,
       <<"%a, %d %b %Y %H:%M:%S", " ", "%Z">>,
       <<"%Y-%m-%dT%H:%M:%S", "%z">>,
       <<"%Y-%m-%dT%H:%M:%S", "Z">>,
       <<"%Y-%m-%d %H:%M:%S">> >>

\* the directives a date-and-time part is written in
BodyLayout(piece) ==
    CASE piece \in {"Mon, 02 Jan 2006 15:04:05", "Tue, 03 Jan 2006 08:00:00"}
            -> "%a, %d %b %Y %H:%M:%S"
      [] piece \in {"2006-01-02T15:04:05", "2006-01-03T08:00:00"}
            -> "%Y-%m-%dT%H:%M:%S"
      [] piece \in {"2006-01-02 15:04:05", "2006-01-03 08:00:00"}
            -> "%Y-%m-%d %H:%M:%S"
      [] OTHER -> "none"

\* one piece of a format against one piece of the string: %z takes a
\* numeric offset or "Z", %Z takes a zone name, anything else is a literal
\* or the directives of a date-and-time part
piece_matches(directive, piece) ==
    CASE directive = "%z" -> piece \in {"+0000", "+0530", "Z"}
      [] directive = "%Z" -> piece \in {"GMT", "UTC"}
      [] directive \in {" ", "Z"} -> piece = directive
      [] OTHER -> BodyLayout(piece) = directive

\* datetime.strptime(date_string, format): the datetime read, aware of its
\* offset when the format has %z, or ValueError
strptime(date_string, format) ==
    IF /\ Len(date_string) = Len(format)
       /\ \A k \in 1..Len(format) : piece_matches(format[k], date_string[k])
    THEN Returns([wall |-> date_string[1],
                  utcoffset |-> IF \E k \in 1..Len(format) : format[k] = "%z"
                                THEN Some(IF date_string[Len(date_string)] = "Z"
                                          THEN "+0000"
                                          ELSE date_string[Len(date_string)])
                                ELSE None])
    ELSE Raises("ValueError")

\* the formats that parse the string
Parsing(date_string) ==
    {k \in 1..Len(DATE_FORMATS) : strptime(date_string, DATE_FORMATS[k]).exc = ""}

parse_date_latest_format(date_str) ==
    IF date_str = None \/ date_str[1] = <<>> \/ Parsing(date_str[1]) = {}
    THEN Returns(None)
    ELSE Returns(Some(strptime(date_str[1],
             DATE_FORMATS[CHOOSE k \in Parsing(date_str[1]) :
                             \A j \in Parsing(date_str[1]) : j <= k]).value))

\* _parse_date: None for no string; else the formats in order, a ValueError
\* or TypeError of strptime goes on to the next format, any other exception
\* leaves the function; None when the list is exhausted
parse_date(date_str) ==
    IF date_str = None \/ date_str[1] = <<>> THEN Returns(None)
    ELSE LET s == date_str[1]
             stops == {k \in 1..Len(DATE_FORMATS) :
                         strptime(s, DATE_FORMATS[k]).exc \notin {"ValueError", "TypeError"}}
         IN  IF stops = {} THEN Returns(None)
             ELSE LET k == CHOOSE i \in stops : \A j \in stops : i <= j
                      call == strptime(s, DATE_FORMATS[k])
                  IN  IF call.exc = "" THEN Returns(Some(call.value))
                      ELSE Raises(call.exc)

InitDate ==
    /\ InitPure
    /\ wk \in {[r \in {1} |-> [pc |-> "entry", published |-> d, post |-> None]] :
                 d \in {None, Some(<<>>)} \cup {Some(s) : s \in DateStrings}}

\* published = self._parse_date(entry.get("published")), then the post
\* record is built with it and handed to upsert_post
NormalizeDate(r) ==
    /\ wk[r].pc = "entry"
    /\ LET call == parse_date(wk[r].published)
       IN  wk' = [wk EXCEPT ![r].pc = IF call.exc = "" THEN "upsert" ELSE "raised",
                            ![r].post = IF call.exc = ""
                                        THEN Some([published |-> call.value])
                                        ELSE None]
    /\ UNCHANGED <<featured_posts, featured_id_seq, feeds, redis_client, blogs, posts, cache, clock, cyclesLeft,
                   entriesLeft, callsLeft, last, cacheSrc>>

NextDate == \E r \in DOMAIN wk : NormalizeDate(r)

SpecDate == InitDate /\ [][NextDate]_vars

\* C22: the publish date is the timestamp read by the first format of the
\* list that parses the string; with no string, or a string no format
\* parses, it is absent; parsing never raises, so the entry goes on to the
\* upsert, with an absent timestamp in those cases.
C22_FirstParsingFormatOrAbsent ==
    \A r \in DOMAIN wk :
        /\ wk[r].pc /= "raised"
        /\ wk[r].pc = "upsert" =>
             LET d == wk[r].published
                 got == wk[r].post[1].published
             IN  IF d = None \/ d[1] = <<>> \/ Parsing(d[1]) = {}
                 THEN got = None
                 ELSE \E k \in Parsing(d[1]) :
                        /\ \A j \in Parsing(d[1]) : k <= j
                        /\ got = Some(strptime(d[1], DATE_FORMATS[k]).value)

\* an unparseable string and a string two formats parse have both gone
\* through: the first has no timestamp, the second that of the earlier format
C22_Witness ==
    \E r \in DOMAIN wk :
        /\ wk[r].pc = "upsert"
        /\ wk[r].published = Some(<<"2006-01-02T15:04:05", "Z">>)
        /\ Cardinality(Parsing(wk[r].published[1])) = 2
        /\ wk[r].post[1].published =
              Some([wall |-> "2006-01-02T15:04:05", utcoffset |-> Some("+0000")])

\* an entry with the date "not-a-date" reaches the upsert without a timestamp
C22_WitnessUnparseable ==
    \E r \in DOMAIN wk :
        /\ wk[r].pc = "upsert"
        /\ wk[r].published = Some(<<"not-a-date">>)
        /\ wk[r].post[1].published = None

\* ---------------------------------------------------------------------
\* The read path: get_cached_posts(feed_id) on its own
\* ---------------------------------------------------------------------

\* requests of get_cached_posts for configured feeds, one after the other
InitRead ==
    /\ InitCommon
    /\ wk = [r \in {1} |-> Idle]
    /\ callsLeft = MaxCalls

NextRead ==
    \/ \E r \in DOMAIN wk, f \in FeedIds : CallGetCached(r, Some(f))
    \/ \E r \in DOMAIN wk : RedisGet(r)
    \/ \E r \in DOMAIN wk : Fetch(r)
    \/ \E r \in DOMAIN wk : NextEntry(r)
    \/ \E r \in DOMAIN wk : CacheWrite(r)
    \/ \E r \in DOMAIN wk : Return(r)
    \/ \E r \in DOMAIN wk : Finish(r)
    \/ \E key \in DOMAIN cache : Expire(key)

SpecRead == InitRead /\ [][NextRead]_vars

\* the positions of a cycle before its return
InCycle == {"fetch", "blog", "entry", "write", "cache"}

\* C23: get_cached_posts(feed_id) for a configured feed: with the cache
\* entry present the call ends at once with the cached list, and no fetch,
\* store write or cache write is made; with the entry absent it runs the
\* cycle of that feed, once, and returns what the cycle returns.
C23_ReadThrough ==
    [][\A r \in DOMAIN wk :
          LET rec == wk[r]
              nxt == wk'[r]
              key == cache_key(rec.feed_id)
          IN  /\ (rec.pc = "rget" /\ nxt.pc \notin {"rget", "raised"}) =>
                    IF cache[key] /= None
                    THEN /\ nxt.pc = "done"
                         /\ nxt.out = json_loads(cache[key][1])
                         /\ UNCHANGED <<blogs, posts, cache, cyclesLeft, entriesLeft>>
                    ELSE /\ nxt.pc = "fetch"
                         /\ nxt.feed_id = rec.feed_id
                         /\ ~nxt.session
              /\ (rec.op = "get_cached" /\ rec.pc \in InCycle /\ nxt.pc /= "raised") =>
                    /\ nxt.pc \in InCycle \cup {"ret"}
                    /\ nxt.feed_id = rec.feed_id
              /\ (rec.op = "get_cached" /\ rec.pc = "ret" /\ nxt /= rec) =>
                    /\ nxt.pc = "done"
                    /\ nxt.out = rec.posts
      ]_vars

\* a call has found the entry of its feed and ended with the cached,
\* non-empty list, while no cycle ran
C23_Witness ==
    \E r \in DOMAIN wk :
        /\ wk[r].op = "get_cached"
        /\ wk[r].pc = "done"
        /\ wk[r].stage = ""
        /\ wk[r].feed_data = None
        /\ wk[r].out /= <<>>
        /\ cache[cache_key(wk[r].feed_id)] /= None
        /\ wk[r].out = CachedList(wk[r].feed_id)

\* ---------------------------------------------------------------------
\* Synchronisation: all three operations on a service with its cache
\* connected and feeds of different URLs
\* ---------------------------------------------------------------------

InitSync ==
    /\ InitCommon
    /\ redis_client
    /\ \A f, g \in FeedIds : f /= g => feeds[f].url /= feeds[g].url
    /\ wk = [r \in {1} |-> Idle]
    /\ callsLeft = MaxCalls

\* the answers of the feed servers: a timeout, or a feed of entries that all
\* have a title
TitledEntries == {e \in EntryPool : e.title /= None}
SyncResponses(cycles, n) ==
    {[kind |-> "timeout", entries |-> <<>>]}
    \cup (IF cycles = 0 THEN {}
          ELSE {[kind |-> "ok", entries |-> es] : es \in SeqsUpTo(TitledEntries, n)})

FetchSync(r) == FetchFrom(r, SyncResponses(cyclesLeft, entriesLeft))

NextSync ==
    \/ \E r \in DOMAIN wk, f \in FeedIds : CallFetchOne(r, f)
    \/ \E r \in DOMAIN wk : CallRefreshAll(r)
    \/ \E r \in DOMAIN wk, f \in FeedIds : CallGetCached(r, Some(f))
    \/ \E r \in DOMAIN wk : RedisGet(r)
    \/ \E r \in DOMAIN wk : FetchSync(r)
    \/ \E r \in DOMAIN wk : EnsureBlog(r)
    \/ \E r \in DOMAIN wk : NextEntry(r)
    \/ \E r \in DOMAIN wk : UpsertWrite(r)
    \/ \E r \in DOMAIN wk : CacheWrite(r)
    \/ \E r \in DOMAIN wk : Return(r)
    \/ \E r \in DOMAIN wk : Finish(r)

SpecSync == InitSync /\ [][NextSync]_vars

BlogIds(table) == {b.id : b \in table}
PostIds(table) == {p.id : p \in table}

\* the links a feed listed
ListedLinks(es) == {es[k].link[1] : k \in {j \in 1..Len(es) : es[j].link /= None}}

\* C24: no step of fetch_and_cache_feed, refresh_all_feeds or
\* get_cached_posts removes a Blog id or a Post id from the store: the sets
\* of ids only grow, so a Post its feed no longer lists stays stored.
C24_IngestionNeverDeletes ==
    [][/\ BlogIds(blogs) \subseteq BlogIds(blogs')
       /\ PostIds(posts) \subseteq PostIds(posts')]_vars

\* the last cycle of a feed ran to its end on a feed that no longer lists
\* the link of a stored Post of that feed
C24_Witness ==
    /\ last /= None
    /\ \E p \in posts :
         /\ p.blog_id = generate_blog_id(last[1].feed_id)
         /\ p.link \notin ListedLinks(last[1].entries)

\* ---------------------------------------------------------------------
\* Blog metadata: cycles over a store that may hold Blog rows written
\* under an earlier configuration
\* ---------------------------------------------------------------------

\* the Blog row of a feed as an earlier configuration left it
StaleBlog(f) ==
    [id |-> generate_blog_id(f), name |-> "old-" \o f, rss_url |-> "old-u-" \o f,
     category |-> None, site_url |-> Some("old-site"), description |-> Some("old-text")]

InitBlog ==
    /\ feeds \in FeedConfigs
    /\ redis_client \in BOOLEAN
    /\ blogs \in SUBSET {StaleBlog(f) : f \in FeedIds}
    /\ posts = {}
    /\ cache = [k \in {cache_key(f) : f \in FeedIds} |-> None]
    /\ clock = 1
    /\ cyclesLeft = MaxCycles
    /\ entriesLeft = MaxEntries
    /\ last = None
    /\ cacheSrc = [k \in {cache_key(f) : f \in FeedIds} |-> None]
    /\ featured_posts = {}
    /\ featured_id_seq = 0
    /\ wk = [r \in {1} |-> Idle]
    /\ callsLeft = MaxCalls

\* the answers of the feed servers: a timeout, or a feed of no entry or of
\* one and the same entry, over and over
BlogResponses(cycles, n) ==
    {[kind |-> "timeout", entries |-> <<>>]}
    \cup (IF cycles = 0 THEN {}
          ELSE {[kind |-> "ok", entries |-> es] :
                  es \in SeqsUpTo({[link |-> Some("a"), title |-> Some("t1")]}, Min(n, 1))})

FetchBlog(r) == FetchFrom(r, BlogResponses(cyclesLeft, entriesLeft))

NextBlog ==
    \/ \E r \in DOMAIN wk, f \in FeedIds : CallFetchOne(r, f)
    \/ \E r \in DOMAIN wk : CallRefreshAll(r)
    \/ \E r \in DOMAIN wk, f \in FeedIds : CallGetCached(r, Some(f))
    \/ \E r \in DOMAIN wk : RedisGet(r)
    \/ \E r \in DOMAIN wk : FetchBlog(r)
    \/ \E r \in DOMAIN wk : EnsureBlog(r)
    \/ \E r \in DOMAIN wk : NextEntry(r)
    \/ \E r \in DOMAIN wk : UpsertWrite(r)
    \/ \E r \in DOMAIN wk : CacheWrite(r)
    \/ \E r \in DOMAIN wk : Return(r)
    \/ \E r \in DOMAIN wk : Finish(r)

SpecBlog == InitBlog /\ [][NextBlog]_vars

\* a Blog row holds the values configured for the feed
HoldsConfig(b, f) ==
    /\ b.name = feeds[f].name
    /\ b.rss_url = feeds[f].url
    /\ b.category = Some(feeds[f].category)
    /\ b.site_url = None
    /\ b.description = None

\* the store holds the Blog row of the feed, with the configured values
BlogSynced(f) ==
    \E b \in blogs : b.id = generate_blog_id(f) /\ HoldsConfig(b, f)

\* C25 as stated: after every cycle with a successful fetch the Blog row of
\* the feed, created or found, holds the configured name, feed URL,
\* category, site URL and description.
C25_EveryCycleSyncsBlog ==
    \A r \in DOMAIN wk :
        CycleEnded(r) =>
            \A b \in blogs :
                b.id = generate_blog_id(wk[r].feed_id) => HoldsConfig(b, wk[r].feed_id)

\* C25, amended: after every cycle with a successful fetch that was run with
\* a store session, the Blog row of the feed holds the configured name, feed
\* URL, category, site URL and description, whether the cycle created the
\* row or found it with other values, and whatever the feed lists.
C25_SessionCycleSyncsBlog ==
    \A r \in DOMAIN wk :
        (CycleEnded(r) /\ wk[r].session) => BlogSynced(wk[r].feed_id)

\* a cycle with a session over a feed without entries has completed on a
\* store that held the Blog row with other values from the start
C25_Witness ==
    \E r \in DOMAIN wk :
        /\ CycleEnded(r)
        /\ wk[r].session
        /\ wk[r].feed_data[1].entries = <<>>
        /\ posts = {}
        /\ clock = 2
        /\ BlogSynced(wk[r].feed_id)
        /\ Cardinality(blogs) = 2

\* C26: after every completed upsert_post call, on the insert branch and on
\* the update branch, the search vector of the row of (blog, link) is the
\* one made of the row's current title, summary and content.
C26_SearchVectorCurrent ==
    /\ \A p \in posts : p.tsv = to_tsvector(p)
    /\ \A r \in DOMAIN wk : \A p \in wk[r].written :
          /\ p.tsv = to_tsvector(p)
          /\ p.id = generate_post_id(wk[r].feed_id, p.link)

\* a row written by an earlier cycle has been written again with a new
\* title, and its search vector is that of the new title
C26_Witness ==
    \E p \in posts :
        /\ p.created_at < p.updated_at
        /\ p.title = "t2"
        /\ p.tsv = Some("t2")

\* the first 50 entries of a fetched feed, in the order of the feed
FirstFifty(feed_data) ==
    LET es == feed_data[1].entries
    IN  [k \in 1..(IF Len(es) < ENTRY_CAP THEN Len(es) ELSE ENTRY_CAP) |-> es[k]]

\* C27: a cycle takes the entries in the order of the feed: at every step
\* its records are those of the entries taken so far, in feed order, the rows
\* it has upserted are those of a prefix of the feed, and the list it caches
\* and returns is the feed-order list of the first 50 entries with a link.
C27_FeedOrder ==
    \A r \in DOMAIN wk :
      /\ (wk[r].pc = "done" /\ wk[r].op /= "refresh_all" /\ wk[r].stage = "complete")
            => wk[r].out = NormalizeAll(wk[r].feed_id, feeds[wk[r].feed_id],
                                        FirstFifty(wk[r].feed_data))
      /\ (wk[r].feed_data /= None /\ (wk[r].pc \in {"entry", "write", "cache"} \/ CycleEnded(r)))
            => LET rec == wk[r]
                   f == rec.feed_id
                   es == FirstFifty(rec.feed_data)
                   taken == IF rec.pc = "write" THEN rec.i ELSE rec.i - 1
                   stored == rec.i - 1
               IN  /\ taken <= Len(es)
                   /\ rec.posts = NormalizeAll(f, feeds[f], SubSeq(es, 1, taken))
                   /\ rec.session =>
                        {w.link : w \in rec.written} = ListedLinks(SubSeq(es, 1, stored))
                   /\ CycleEnded(r) =>
                        /\ taken = Len(es)
                        /\ redis_client => CachedList(f) = rec.posts

\* a cycle with a session has ended on a feed that lists link "b" before
\* link "a": its list and the cache entry hold the records in that order
C27_Witness ==
    \E r \in DOMAIN wk :
        /\ CycleEnded(r)
        /\ wk[r].session /\ redis_client
        /\ Len(wk[r].posts) = 2
        /\ wk[r].posts[1].link = "b" /\ wk[r].posts[2].link = "a"
        /\ wk[r].feed_data[1].entries[1].link = Some("b")
        /\ CachedList(wk[r].feed_id) = wk[r].posts
        /\ {w.link : w \in wk[r].written} = {"a", "b"}

\* the feed ids of a result mapping, in the order they were entered
ResultKeys(results) == [k \in 1..Len(results) |-> results[k].feed_id]

\* C28: refresh_all_feeds runs the cycle of each configured feed once, in
\* configured order, and ends by returning a mapping whose keys are exactly
\* the configured feed ids: while it runs the mapping holds the feeds before
\* the current one, and it ends in no other way than by returning.
C28_RefreshAllReturnsMapping ==
    \A r \in DOMAIN wk :
        wk[r].op = "refresh_all"
            => /\ wk[r].pc /= "raised"
               /\ wk[r].pc = "done" => ResultKeys(wk[r].results) = FeedOrder
               /\ wk[r].pc \notin {"done", "raised"} =>
                     ResultKeys(wk[r].results) \o <<wk[r].feed_id>> \o wk[r].queue = FeedOrder

\* C30: when a cycle upserts an entry whose Post row an earlier cycle left
\* in the store, the row keeps its id, blog, link and created_at, and its
\* updated_at becomes strictly later than it was.
C30_ReingestAdvancesUpdatedAt ==
    [][\A r \in DOMAIN wk :
          (wk[r].pc = "write" /\ wk'[r].pc /= "raised") =>
              \A old \in wk[r].existing :
                  \E new \in posts' :
                      /\ new.id = old.id
                      /\ new.blog_id = old.blog_id
                      /\ new.link = old.link
                      /\ new.created_at = old.created_at
                      /\ new.updated_at >= old.updated_at
                      /\ old \notin wk[r].written => new.updated_at > old.updated_at
                      /\ \A other \in posts' : other.id = old.id => other = new
      ]_vars

\* a second cycle has gone over a feed with the entry it had in the first
\* cycle: the row has its first created_at and a later updated_at
C30_Witness ==
    \E r \in DOMAIN wk :
        /\ CycleEnded(r)
        /\ wk[r].session
        /\ \E p \in posts \cap wk[r].written :
             /\ p.title = "t1"
             /\ p.created_at = 2
             /\ p.updated_at = 3

\* ---------------------------------------------------------------------
\* Featured posts: POST /featured and DELETE /featured/{id}
\* (routers/featured.py, db_service.add_featured_post and
\* remove_featured_post), two requests in flight
\* ---------------------------------------------------------------------

Weeks == {"2025-02-17", "2025-02-24"}

\* the Post rows the ingestion left in the store
StoredPosts ==
    {[id |-> generate_post_id("f1", l), blog_id |-> generate_blog_id("f1"),
      title |-> "t1", link |-> l, tsv |-> Some("t1"), created_at |-> 1, updated_at |-> 1] :
        l \in {"a", "b"}}

\* data.post_id of a request: the id of a stored Post, a UUID of no Post, or
\* a string that is no UUID
PostIdTexts == PostIds(StoredPosts) \cup {"#unknown", "not-a-uuid"}

\* uuid.UUID(text): the UUID, or ValueError
uuid_parse(text) == IF text = "not-a-uuid" THEN Raises("ValueError") ELSE Returns(text)

get_post_by_id(table, post_id) == {p \in table : p.id = post_id}

get_featured_none(table, post_id, week_start) == {}

\* select(FeaturedPost).where(post_id == ..., week_start == ...)
get_featured(table, post_id, week_start) ==
    {fp \in table : fp.post_id = post_id /\ fp.week_start = week_start}

\* coalesce(max(order_index), 0) over the rows of the week
max_order_index(table, week_start) ==
    LET used == {fp.order_index : fp \in {x \in table : x.week_start = week_start}}
    IN  IF used = {} THEN 0 ELSE CHOOSE m \in used : \A n \in used : n <= m

\* featured_posts: PRIMARY KEY (id), FOREIGN KEY (post_id),
\* UNIQUE (week_start, post_id)
featured_insert_ok(table, posttable, row) ==
    /\ \A fp \in table : fp.id /= row.id
    /\ \A fp \in table : ~(fp.week_start = row.week_start /\ fp.post_id = row.post_id)
    /\ \E p \in posttable : p.id = row.post_id

\* a request of the featured router before it is called
FeaturedIdle ==
    [pc |-> "idle", op |-> "", post_id |-> "", week_start |-> "", order_index |-> None,
     featured_id |-> 0, found |-> {}, err |-> "", at |-> "", status |-> 0]

\* an exception leaves the endpoint: HTTPException keeps its status,
\* anything else becomes 500
http_raise(rec, error, status) ==
    [rec EXCEPT !.pc = "raised", !.err = error, !.at = rec.pc, !.status = status]

InitFeatured ==
    /\ feeds = CHOOSE c \in FeedConfigs : TRUE
    /\ redis_client = TRUE
    /\ blogs = {[id |-> generate_blog_id("f1"), name |-> "n-f1", rss_url |-> "u1",
                 category |-> Some("c-f1"), site_url |-> None, description |-> None]}
    /\ posts = StoredPosts
    /\ cache = [k \in {cache_key(f) : f \in FeedIds} |-> None]
    /\ clock = 1
    /\ cyclesLeft = 0
    /\ entriesLeft = 0
    /\ last = None
    /\ cacheSrc = [k \in {cache_key(f) : f \in FeedIds} |-> None]
    /\ featured_posts = {}
    /\ featured_id_seq = 0
    /\ wk = [r \in {1, 2} |-> FeaturedIdle]
    /\ callsLeft = MaxCalls

FeaturedFrame ==
    UNCHANGED <<feeds, redis_client, blogs, posts, cache, clock, cyclesLeft, entriesLeft,
                last, cacheSrc>>

\* POST /featured: the endpoint up to its first await
CallAddFeatured(r, text, week, order) ==
    /\ wk[r].pc = "idle"
    /\ callsLeft > 0
    /\ callsLeft' = callsLeft - 1
    /\ LET rec == [FeaturedIdle EXCEPT !.op = "add", !.week_start = week,
                                       !.order_index = order]
           call == uuid_parse(text)
       IN  wk' = [wk EXCEPT ![r] =
                    IF call.exc /= ""
                    THEN http_raise([rec EXCEPT !.pc = "parse"], "HTTPException", 400)
                    ELSE [rec EXCEPT !.pc = "get_post", !.post_id = call.value]]
    /\ UNCHANGED <<featured_posts, featured_id_seq>>
    /\ FeaturedFrame

\* post = await get_post_by_id(...); 404 if there is none; then the lookup
\* of add_featured_post is sent
AddFeaturedGetPost(r) ==
    /\ wk[r].pc = "get_post"
    /\ wk' = [wk EXCEPT ![r] =
                IF get_post_by_id(posts, wk[r].post_id) = {}
                THEN http_raise(wk[r], "HTTPException", 404)
                ELSE [wk[r] EXCEPT !.pc = "check"]]
    /\ UNCHANGED <<featured_posts, featured_id_seq, callsLeft>>
    /\ FeaturedFrame

\* the lookup returns: ValueError when a row is found, which the endpoint
\* turns into 400; else the order index is taken or asked for
AddFeaturedCheck(r) ==
    /\ wk[r].pc = "check"
    /\ LET rec == wk[r]
           existing == get_featured(featured_posts, rec.post_id, rec.week_start)
       IN  wk' = [wk EXCEPT ![r] =
                    IF existing /= {} THEN http_raise(rec, "ValueError", 400)
                    ELSE IF rec.order_index = None THEN [rec EXCEPT !.pc = "max_order"]
                    ELSE [rec EXCEPT !.pc = "insert"]]
    /\ UNCHANGED <<featured_posts, featured_id_seq, callsLeft>>
    /\ FeaturedFrame

\* order_index = max_order.scalar() + 1
AddFeaturedMaxOrder(r) ==
    /\ wk[r].pc = "max_order"
    /\ wk' = [wk EXCEPT ![r].pc = "insert",
                        ![r].order_index =
                            Some(max_order_index(featured_posts, wk[r].week_start) + 1)]
    /\ UNCHANGED <<featured_posts, featured_id_seq, callsLeft>>
    /\ FeaturedFrame

\* session.add(featured); await session.commit(): the INSERT takes the next
\* id of the sequence; a refused INSERT raises IntegrityError, which the
\* endpoint does not catch
AddFeaturedInsert(r) ==
    /\ wk[r].pc = "insert"
    /\ LET rec == wk[r]
           row == [id |-> featured_id_seq + 1, post_id |-> rec.post_id,
                   week_start |-> rec.week_start, order_index |-> rec.order_index[1]]
       IN  /\ featured_id_seq' = featured_id_seq + 1
           /\ IF featured_insert_ok(featured_posts, posts, row)
              THEN /\ featured_posts' = featured_posts \cup {row}
                   /\ wk' = [wk EXCEPT ![r] = [rec EXCEPT !.pc = "done", !.status = 201,
                                                          !.featured_id = row.id]]
              ELSE /\ featured_posts' = featured_posts
                   /\ wk' = [wk EXCEPT ![r] = http_raise(rec, "IntegrityError", 500)]
    /\ UNCHANGED callsLeft
    /\ FeaturedFrame

\* DELETE /featured/{featured_id}: the select is sent
CallRemoveFeatured(r, featured_id) ==
    /\ wk[r].pc = "idle"
    /\ callsLeft > 0
    /\ callsLeft' = callsLeft - 1
    /\ wk' = [wk EXCEPT ![r] = [FeaturedIdle EXCEPT !.op = "remove", !.pc = "select",
                                                    !.featured_id = featured_id]]
    /\ UNCHANGED <<featured_posts, featured_id_seq>>
    /\ FeaturedFrame

\* featured = result.scalars().first(); without a row: False, and 404
RemoveFeaturedSelect(r) ==
    /\ wk[r].pc = "select"
    /\ LET found == {fp \in featured_posts : fp.id = wk[r].featured_id}
       IN  wk' = [wk EXCEPT ![r] =
                    IF found = {} THEN http_raise(wk[r], "HTTPException", 404)
                    ELSE [wk[r] EXCEPT !.pc = "delete", !.found = found]]
    /\ UNCHANGED <<featured_posts, featured_id_seq, callsLeft>>
    /\ FeaturedFrame

\* await session.delete(featured); await session.commit(); return True
RemoveFeaturedDelete(r) ==
    /\ wk[r].pc = "delete"
    /\ featured_posts' = {fp \in featured_posts : fp.id /= wk[r].featured_id}
    /\ wk' = [wk EXCEPT ![r].pc = "done", ![r].status = 204]
    /\ UNCHANGED <<featured_id_seq, callsLeft>>
    /\ FeaturedFrame

\* the response is sent
FinishFeatured(r) ==
    /\ wk[r].pc \in {"done", "raised"}
    /\ wk' = [wk EXCEPT ![r] = FeaturedIdle]
    /\ UNCHANGED <<featured_posts, featured_id_seq, callsLeft>>
    /\ FeaturedFrame

NextFeatured ==
    \/ \E r \in DOMAIN wk, text \in PostIdTexts, week \in Weeks, order \in {None, Some(1)} :
          CallAddFeatured(r, text, week, order)
    \/ \E r \in DOMAIN wk : AddFeaturedGetPost(r)
    \/ \E r \in DOMAIN wk : AddFeaturedCheck(r)
    \/ \E r \in DOMAIN wk : AddFeaturedMaxOrder(r)
    \/ \E r \in DOMAIN wk : AddFeaturedInsert(r)
    \/ \E r \in DOMAIN wk, id \in 1..MaxCalls : CallRemoveFeatured(r, id)
    \/ \E r \in DOMAIN wk : RemoveFeaturedSelect(r)
    \/ \E r \in DOMAIN wk : RemoveFeaturedDelete(r)
    \/ \E r \in DOMAIN wk : FinishFeatured(r)

SpecFeatured == InitFeatured /\ [][NextFeatured]_vars

\* no two rows of featured_posts have the same post and week
OnePerPostAndWeek(table) ==
    \A a, b \in table : (a.post_id = b.post_id /\ a.week_start = b.week_start) => a = b

\* C31: whatever add and remove calls are made, featured_posts has at most
\* one row per (post, week_start); an add whose lookup finds the post
\* featured in that week ends with ValueError, answered with status 400, and
\* leaves the table as it was.
C31_FeaturedOncePerWeek ==
    [][/\ OnePerPostAndWeek(featured_posts')
       /\ \A r \in DOMAIN wk :
            (/\ wk[r].pc = "check"
             /\ wk'[r] /= wk[r]
             /\ \E fp \in featured_posts :
                   fp.post_id = wk[r].post_id /\ fp.week_start = wk[r].week_start)
               => /\ wk'[r].pc = "raised"
                  /\ wk'[r].err = "ValueError"
                  /\ wk'[r].status = 400
                  /\ featured_posts' = featured_posts
       /\ \A r \in DOMAIN wk :
            (wk[r].pc /= "raised" /\ wk'[r].pc = "raised") => featured_posts' = featured_posts
      ]_vars

\* an add was refused with 400 for a post that is featured in that week
C31_Witness ==
    \E r \in DOMAIN wk :
        /\ wk[r].op = "add"
        /\ wk[r].pc = "raised"
        /\ wk[r].err = "ValueError"
        /\ wk[r].status = 400
        /\ Cardinality(featured_posts) = 1
        /\ \E fp \in featured_posts :
              fp.post_id = wk[r].post_id /\ fp.week_start = wk[r].week_start

\* what the store and the cache hold of feed f: its Blog row, its Post rows
\* and its cache entry
FeedState(f, blogtable, posttable, store) ==
    [blog |-> {b \in blogtable : b.id = generate_blog_id(f)},
     posts |-> {p \in posttable : p.blog_id = generate_blog_id(f)},
     cache |-> store[cache_key(f)]]

\* C32: no step of a refresh cycle for a feed changes the Blog row, the Post
\* rows or the cache entry of another feed, also when both feeds list the
\* same link.
C32_OtherFeedsUntouched ==
    [][\A r \in DOMAIN wk :
          wk[r].pc \in InCycle =>
              \A f \in FeedIds \ {wk[r].feed_id} :
                  FeedState(f, blogs', posts', cache') = FeedState(f, blogs, posts, cache)
      ]_vars

\* a cycle of one feed has ended after it upserted a link of which the
\* other feed has a row and a cache record of its own
C32_Witness ==
    \E r \in DOMAIN wk :
        /\ CycleEnded(r)
        /\ wk[r].session
        /\ \E f \in FeedIds \ {wk[r].feed_id} :
             \E mine \in wk[r].written : \E other \in posts :
                /\ mine \in posts
                /\ other.blog_id = generate_blog_id(f)
                /\ other.link = mine.link
                /\ other.updated_at < mine.updated_at
                /\ cache[cache_key(f)] /= None
                /\ \E c \in Range(CachedList(f)) : c.link = mine.link

\* C33: every Post row a session sees carries the blog id and the post id
\* derived from the key of the feed that produced it and from its link, so
\* the row that the (blog, link) lookup of upsert_post finds is the one row
\* with the id that is passed on to the search-vector refresh.
C33_LookupFindsTargetRow ==
    \A r \in DOMAIN wk :
        /\ \A p \in Apply(posts, wk[r].pending) :
              \E f \in DOMAIN feeds :
                  p.blog_id = generate_blog_id(f) /\ p.id = generate_post_id(f, p.link)
        /\ wk[r].pc = "write" =>
              LET passed == wk[r].posts[Len(wk[r].posts)]
              IN  /\ passed.id = generate_post_id(wk[r].feed_id, passed.link)
                  /\ passed.blog_id = generate_blog_id(wk[r].feed_id)
                  /\ Cardinality(wk[r].existing) <= 1
                  /\ \A e \in wk[r].existing :
                        /\ e.id = passed.id
                        /\ e.blog_id = passed.blog_id
                        /\ e.link = passed.link
                        /\ {p \in posts : p.id = passed.id} = {e}

\* the lookup of a cycle has found the row an earlier cycle wrote for the link
C33_Witness ==
    \E r \in DOMAIN wk :
        /\ wk[r].pc = "write"
        /\ \E e \in wk[r].existing :
              /\ e.updated_at < clock
              /\ e.title /= wk[r].posts[Len(wk[r].posts)].title

\* the places of the entries of es that list the link
Listings(es, link) == {k \in 1..Len(es) : es[k].link = Some(link)}

\* C34: when a feed lists a link more than once among its first 50 entries,
\* a cycle with a session leaves exactly one Post row for the link, with the
\* fields of the last of these entries, while the list it returns and caches
\* has one record for every listing.
C34_RepeatedLinkOneRow ==
    \A r \in DOMAIN wk :
        (CycleEnded(r) /\ wk[r].session) =>
            LET es == FirstFifty(wk[r].feed_data)
                f == wk[r].feed_id
            IN  /\ \A link \in ListedLinks(es) :
                      LET rows == {p \in posts : p.blog_id = generate_blog_id(f) /\ p.link = link}
                          final == CHOOSE k \in Listings(es, link) :
                                       \A j \in Listings(es, link) : j <= k
                      IN  /\ Cardinality(rows) = 1
                          /\ \A p \in rows : p.title = es[final].title[1]
                          /\ Cardinality({k \in 1..Len(wk[r].posts) : wk[r].posts[k].link = link})
                                = Cardinality(Listings(es, link))
                /\ redis_client => CachedList(f) = wk[r].posts

\* a cycle has ended on a feed that lists link "a" twice, with title "t1"
\* and then "t2": one row, titled "t2", and two records
C34_Witness ==
    \E r \in DOMAIN wk :
        /\ CycleEnded(r)
        /\ wk[r].session
        /\ wk[r].feed_data[1].entries =
              <<[link |-> Some("a"), title |-> Some("t1")],
                [link |-> Some("a"), title |-> Some("t2")]>>
        /\ Len(wk[r].posts) = 2
        /\ \E p \in posts :
              /\ p.blog_id = generate_blog_id(wk[r].feed_id)
              /\ p.link = "a"
              /\ p.title = "t2"
        /\ Cardinality({p \in posts : p.blog_id = generate_blog_id(wk[r].feed_id)}) = 1

\* ---------------------------------------------------------------------
\* The read of all feeds: get_cached_posts() on its own
\* ---------------------------------------------------------------------

\* refresh_all_feeds fills the cache, get_cached_posts() reads it, and the
\* entries expire at any moment; the service runs with or without a cache
\* client
InitAll ==
    /\ InitCommon
    /\ wk = [r \in {1} |-> Idle]
    /\ callsLeft = MaxCalls

NextAll ==
    \/ \E r \in DOMAIN wk : CallRefreshAll(r)
    \/ \E r \in DOMAIN wk : CallGetCached(r, None)
    \/ \E r \in DOMAIN wk : RedisGetAll(r)
    \/ \E r \in DOMAIN wk : FetchSync(r)
    \/ \E r \in DOMAIN wk : EnsureBlog(r)
    \/ \E r \in DOMAIN wk : NextEntry(r)
    \/ \E r \in DOMAIN wk : UpsertWrite(r)
    \/ \E r \in DOMAIN wk : CacheWrite(r)
    \/ \E r \in DOMAIN wk : Return(r)
    \/ \E r \in DOMAIN wk : Finish(r)
    \/ \E key \in DOMAIN cache : Expire(key)

SpecAll == InitAll /\ [][NextAll]_vars

\* a request of get_cached_posts that names no feed
NoFeedId(rec) == rec.op = "get_cached" /\ rec.feed_id = ""

\* C35: get_cached_posts() without a feed identifier never enters a cycle
\* and changes neither the store nor the cache; without a cache client it
\* ends at once with the empty list; with one it reads the feeds in the
\* configured order, appends the entry of a feed when it is present, appends
\* nothing when it is absent or expired, and returns the list so built.
C35_ReadAllIsPure ==
    [][\A r \in DOMAIN wk :
          /\ NoFeedId(wk[r]) => wk[r].pc \in {"rget_all", "done", "raised"}
          /\ ((NoFeedId(wk[r]) \/ NoFeedId(wk'[r])) /\ wk'[r] /= wk[r]) =>
                /\ blogs' = blogs
                /\ posts' = posts
                /\ cache' = cache
          /\ (wk[r].pc = "idle" /\ NoFeedId(wk'[r])) =>
                /\ wk'[r].out = <<>>
                /\ IF redis_client
                   THEN wk'[r].pc = "rget_all" /\ wk'[r].queue = FeedOrder
                   ELSE wk'[r].pc = "done"
          /\ (NoFeedId(wk[r]) /\ wk[r].pc = "rget_all" /\ wk'[r] /= wk[r]) =>
                /\ wk'[r].pc \in {"rget_all", "done", "raised"}
                /\ wk'[r].pc = "rget_all" =>
                      /\ wk[r].queue /= <<>>
                      /\ wk'[r].queue = Tail(wk[r].queue)
                      /\ wk'[r].out =
                            IF cache[cache_key(Head(wk[r].queue))] /= None
                            THEN wk[r].out \o CachedList(Head(wk[r].queue))
                            ELSE wk[r].out
                /\ wk'[r].pc = "done" =>
                      /\ wk[r].queue = <<>>
                      /\ wk'[r].out = wk[r].out
      ]_vars

\* get_cached_posts() has returned the entries of both feeds, one after the
\* other
C35_Witness ==
    \E r \in DOMAIN wk :
        /\ NoFeedId(wk[r])
        /\ wk[r].pc = "done"
        /\ \A f \in FeedIds : cache[cache_key(f)] /= None /\ CachedList(f) /= <<>>
        /\ wk[r].out = CachedList(FeedOrder[1]) \o CachedList(FeedOrder[2])

\* get_cached_posts() has returned the entry of the second feed alone, the
\* entry of the first being absent
C35_WitnessOmitted ==
    \E r \in DOMAIN wk :
        /\ NoFeedId(wk[r])
        /\ wk[r].pc = "done"
        /\ cache[cache_key(FeedOrder[1])] = None
        /\ cache[cache_key(FeedOrder[2])] /= None
        /\ wk[r].out /= <<>>
        /\ wk[r].out = CachedList(FeedOrder[2])

====
